---- MODULE Spec2Model ----
(***************************************************************************)
(* A model of Mflux_Pro.py: the three value holders (MfluxImagePipeline,   *)
(* MfluxLorasPipeline, MfluxControlNetPipeline) and the node classes that  *)
(* build and validate them.                                                *)
(*                                                                         *)
(* Python strings are sequences of tokens; a token is either the path      *)
(* separator "/" or a piece of text that holds no separator, so that       *)
(* os.path.join is computed the way posixpath computes it.  Python lists   *)
(* are objects of a heap (a reference and its contents), so that sharing   *)
(* between holders is something the model can express.                     *)
(***************************************************************************)
EXTENDS Integers, Sequences, FiniteSets, TLC

VARIABLES
    loras,        \* the MfluxLorasPipeline objects, in creation order
    lists,        \* the heap of Python list objects: reference -> contents
    files,        \* the input directory: path of each image file -> its size
    images,       \* the MfluxImagePipeline objects, in creation order
    controlnets,  \* the MfluxControlNetPipeline objects, in creation order
    hashes,       \* hash() of the strings hashed so far in this process
    changed,      \* the two most recent keys IS_CHANGED gave the host
    last          \* the most recent call: its name, arguments and result

vars == <<loras, lists, files, images, controlnets, hashes, changed, last>>

lorasVars == <<loras, lists>>

nodesVars == <<files, images, controlnets, hashes, changed>>

\* ------------------------------------------------------------------ bounds

\* How many MfluxLorasPipeline objects a run creates.
MaxLoras == 2

\* ----------------------------------------------------------------- strings

Sep == "/"

\* os.path.join(a, b) of posixpath: an absolute b replaces a, otherwise b is
\* appended, after a separator unless a is empty or already ends with one.
OsPathJoin2(a, b) ==
    IF b # <<>> /\ Head(b) = Sep THEN b
    ELSE IF a = <<>> \/ a[Len(a)] = Sep THEN a \o b
    ELSE a \o <<Sep>> \o b

\* os.path.join(a, b, c)
OsPathJoin(a, b, c) == OsPathJoin2(OsPathJoin2(a, b), c)

\* folder_paths.models_dir
models_dir == <<Sep, "models">>

\* The selection that marks an unused slot: the string "None".
NoneStr == <<"None">>

\* folder_paths.get_filename_list("loras"): names relative to the loras folder.
LoraFileA == <<"a.safetensors">>

LoraFileB == <<"sub", Sep, "b.safetensors">>

LoraFiles == {LoraFileA, LoraFileB}

\* The choices INPUT_TYPES offers for Lora1, Lora2 and Lora3.
loras_relative == {NoneStr} \cup LoraFiles

\* The slots of the node: range(1, 4).
Slots == 1..3

\* What one slot of the node is set to: a selection and a scale, in
\* hundredths (the widget's step is 0.01).  An unused slot carries either
\* scale; the two files carry different scales, so that a path and the scale
\* beside it can be told from every other pair.
SlotInputs ==
    { [Lora |-> NoneStr, scale |-> 80],
      [Lora |-> NoneStr, scale |-> 100],
      [Lora |-> LoraFileA, scale |-> 80],
      [Lora |-> LoraFileB, scale |-> 100] }

\* The keyword arguments of lora_stacker: Lora1..Lora3 and scale1..scale3.
Kwargs ==
    { [Lora |-> [i \in Slots |-> c[i].Lora], scale |-> [i \in Slots |-> c[i].scale]] :
        c \in [Slots -> SlotInputs] }

\* -------------------------------------------------------------- list heap

\* The references of the list objects (the holders of a run need no more).
Refs == 1..(2 * MaxLoras + 2)

\* The references some holder still holds.
LiveRefs(hs) == { hs[h].lora_paths : h \in DOMAIN hs } \cup { hs[h].lora_scales : h \in DOMAIN hs }

Min(S) == CHOOSE x \in S : \A y \in S : x <= y

\* A new list object: a reference no holder holds.
FreshRef(hs, taken) == Min(Refs \ (LiveRefs(hs) \cup taken))

\* The heap once the lists no holder references are reclaimed.
Collect(hs, ls) == [r \in Refs |-> IF r \in LiveRefs(hs) THEN ls[r] ELSE <<>>]

\* zip(a, b): pairs up to the shorter of the two.
Zip(a, b) == [i \in 1..(IF Len(a) <= Len(b) THEN Len(a) ELSE Len(b)) |-> <<a[i], b[i]>>]

\* -------------------------------------------------------- MfluxLorasLoader

\* The comprehension with the slots taken in the order 3, 2, 1.
LocalLoraModelsReversed(kw) ==
    LET F[i \in 0..3] ==
            IF i = 0 THEN <<>>
            ELSE IF kw.Lora[4 - i] # NoneStr
                 THEN Append(F[i - 1], <<OsPathJoin(models_dir, <<"loras">>, kw.Lora[4 - i]), kw.scale[4 - i]>>)
                 ELSE F[i - 1]
    IN F[3]

\* The comprehension without its filter: a slot set to "None" gives an entry.
LocalLoraModelsUnfiltered(kw) ==
    [i \in Slots |-> <<OsPathJoin(models_dir, <<"loras">>, kw.Lora[i]), kw.scale[i]>>]

\* The comprehension of lora_stacker: one (path, scale) per slot whose
\* selection is not "None", in slot order.
LocalLoraModels(kw) ==
    LET F[i \in 0..3] ==
            IF i = 0 THEN <<>>
            ELSE IF kw.Lora[i] # NoneStr
                 THEN Append(F[i - 1], <<OsPathJoin(models_dir, <<"loras">>, kw.Lora[i]), kw.scale[i]>>)
                 ELSE F[i - 1]
    IN F[3]

\* What lora_models.extend adds: the upstream's entries, when an upstream
\* is given (up is 0 for None, or a MfluxLorasPipeline) and both of its
\* lists are non-empty.
UpstreamModels(up) ==
    IF up # 0
    THEN LET lora_paths == lists[loras[up].lora_paths]
             lora_scales == lists[loras[up].lora_scales]
         IN IF lora_paths # <<>> /\ lora_scales # <<>>
            THEN Zip(lora_paths, lora_scales)
            ELSE <<>>
    ELSE <<>>

\* The extend done the other way round: the upstream's entries come first.
CombinedModelsUpstreamFirst(local, upstream) == upstream \o local

\* lora_models after the extend: the local entries, then the upstream's.
CombinedModels(local, upstream) == local \o upstream

\* zip(*lora_models), or two empty lists: the contents of the two new lists.
SplitModels(lora_models) ==
    IF lora_models # <<>>
    THEN [paths |-> [i \in 1..Len(lora_models) |-> lora_models[i][1]],
          scales |-> [i \in 1..Len(lora_models) |-> lora_models[i][2]]]
    ELSE [paths |-> <<>>, scales |-> <<>>]

\* The result built in the upstream's own lists: they are overwritten with
\* the split entries and the new holder holds the same two lists.
StackerHeapInPlace(up, split) ==
    IF up # 0
    THEN [lists |-> [lists EXCEPT ![loras[up].lora_paths] = split.paths,
                                  ![loras[up].lora_scales] = split.scales],
          lora_paths |-> loras[up].lora_paths, lora_scales |-> loras[up].lora_scales]
    ELSE LET p == FreshRef(loras, {})
             s == FreshRef(loras, {p})
         IN [lists |-> [lists EXCEPT ![p] = split.paths, ![s] = split.scales],
             lora_paths |-> p, lora_scales |-> s]

\* The heap after lora_stacker built its result: list(lora_paths) and
\* list(lora_scales) are two new lists that hold the split entries; the
\* lists of the upstream holder up are read and never written.
StackerHeap(up, split) ==
    LET p == FreshRef(loras, {})
        s == FreshRef(loras, {p})
    IN [lists |-> [lists EXCEPT ![p] = split.paths, ![s] = split.scales],
        lora_paths |-> p, lora_scales |-> s]

\* MfluxLorasLoader.lora_stacker(Loras=up, **kw)
lora_stacker(kw, up) ==
    /\ Len(loras) < MaxLoras
    /\ LET local == LocalLoraModels(kw)
           lora_models == CombinedModels(local, UpstreamModels(up))
           heap == StackerHeap(up, SplitModels(lora_models))
       IN /\ loras' = Append(loras, [lora_paths |-> heap.lora_paths, lora_scales |-> heap.lora_scales])
          /\ lists' = heap.lists
          /\ UNCHANGED nodesVars
          /\ last' = [op |-> "lora_stacker", kw |-> kw, Loras |-> up,
                      before |-> [h \in DOMAIN loras |->
                                     [paths |-> lists[loras[h].lora_paths],
                                      scales |-> lists[loras[h].lora_scales]]],
                      result |-> Len(loras) + 1]

\* clear_cache that forgets lora_scales: only lora_paths is bound to a new
\* empty list.
LorasClearCachePathsOnly(h) ==
    LET others == [g \in DOMAIN loras \ {h} |-> loras[g]]
        p == FreshRef(others, {loras[h].lora_scales})
        hs == [loras EXCEPT ![h].lora_paths = p]
    IN /\ loras' = hs
       /\ lists' = Collect(hs, [lists EXCEPT ![p] = <<>>])
       /\ UNCHANGED nodesVars
       /\ last' = [op |-> "Loras.clear_cache", h |-> h,
                   before |-> [g \in DOMAIN loras |->
                                  [paths |-> lists[loras[g].lora_paths],
                                   scales |-> lists[loras[g].lora_scales]]]]

\* MfluxLorasPipeline.clear_cache: both fields are bound to new empty lists
\* (the lists they were bound to are reclaimed once no holder holds them).
LorasClearCache(h) ==
    LET others == [g \in DOMAIN loras \ {h} |-> loras[g]]
        p == FreshRef(others, {})
        s == FreshRef(others, {p})
        hs == [loras EXCEPT ![h] = [lora_paths |-> p, lora_scales |-> s]]
    IN /\ loras' = hs
       /\ lists' = Collect(hs, [lists EXCEPT ![p] = <<>>, ![s] = <<>>])
       /\ UNCHANGED nodesVars
       /\ last' = [op |-> "Loras.clear_cache", h |-> h,
                   before |-> [g \in DOMAIN loras |->
                                  [paths |-> lists[loras[g].lora_paths],
                                   scales |-> lists[loras[g].lora_scales]]]]

\* ------------------------------------------------------------ Python values

\* A Python value is its type and its value.  A float is held in
\* thousandths, so that rounding to two decimals has something to round.
PyNone == [type |-> "NoneType"]

PyStr(s) == [type |-> "str", val |-> s]

PyInt(n) == [type |-> "int", val |-> n]

PyFloat(x) == [type |-> "float", val |-> x]

PyBool(b) == [type |-> "bool", val |-> b]

PyTrue == PyBool(TRUE)

\* An exception leaves the call: nothing is returned.
Raised == [type |-> "raise"]

\* isinstance(v, (int, float)): bool is a subclass of int.
IsIntOrFloat(v) == v.type \in {"int", "float", "bool"}

\* isinstance(v, bool)
IsBool(v) == v.type = "bool"

\* float(v), in thousandths, of a number.
ToFloat(v) ==
    IF v.type = "float" THEN v.val
    ELSE IF v.type = "int" THEN 1000 * v.val
    ELSE IF v.val THEN 1000 ELSE 0

\* round(x, 2), in hundredths, of thousandths x that are no tie.
Round2(x) == (x + 5) \div 10

\* ------------------------------------------------------------- file system

\* folder_paths.get_input_directory()
input_dir == <<Sep, "input">>

\* The image names the widget offers.
ImageNames == { <<"a.png">>, <<"b.png">> }

\* folder_paths.get_annotated_filepath(name), of a name with no annotation.
GetAnnotatedFilepath(name) == OsPathJoin2(input_dir, name)

\* folder_paths.exists_annotated_filepath(name), of a path string.
ExistsAnnotatedFilepath(name) == GetAnnotatedFilepath(name) \in DOMAIN files

\* img.size of every image of the input directory.
ImageSize == <<64, 32>>

\* The values a strength input may hold.
Strengths == { PyFloat(400), PyFloat(404), PyInt(1), PyBool(TRUE), PyStr(<<"high">>), PyNone }

\* A file of the input directory is deleted behind the program's back.
RemoveFile(p) ==
    /\ files' = [q \in DOMAIN files \ {p} |-> files[q]]
    /\ last' = [op |-> "remove", path |-> p]
    /\ UNCHANGED <<lorasVars, images, controlnets, hashes, changed>>

\* ----------------------------------------------------------- MfluxLoadImage

\* How many MfluxImagePipeline objects a run creates.
MaxImages == 1

\* How many distinct values hash() has.
HashValues == 2

\* VALIDATE_INPUTS without its check of the strength.
ImageValidateInputsNoStrength(image, strength) ==
    IF ~ExistsAnnotatedFilepath(image) THEN PyStr(<<"Invalid image file: ">> \o image)
    ELSE PyTrue

\* MfluxLoadImage.VALIDATE_INPUTS(image, strength)
ImageValidateInputs(image, strength) ==
    IF ~ExistsAnnotatedFilepath(image) THEN PyStr(<<"Invalid image file: ">> \o image)
    ELSE IF ~IsIntOrFloat(strength) THEN PyStr(<<"Strength must be a number">>)
    ELSE PyTrue

\* The host calls VALIDATE_INPUTS and keeps what it returns.
ImageValidate(image, strength) ==
    /\ last' = [op |-> "Image.VALIDATE_INPUTS", image |-> image, strength |-> strength,
                result |-> ImageValidateInputs(image, strength)]
    /\ UNCHANGED <<lorasVars, nodesVars>>

\* The key without the rounding: (image_hash, float(strength)).
ChangedKeyUnrounded(image_hash, strength) == <<image_hash, ToFloat(strength)>>

\* The key of IS_CHANGED: (image_hash, strength_rounded).
ChangedKey(image_hash, strength) == <<image_hash, Round2(ToFloat(strength))>>

\* MfluxLoadImage.IS_CHANGED(image, strength).  hash(image) is whatever this
\* process's hash gives the string: the same value each time it is asked,
\* and nothing more is known of it.  float() of a non-number raises.
IS_CHANGED(image, strength) ==
    \E image_hash \in 0..(HashValues - 1) :
        /\ image \in DOMAIN hashes => image_hash = hashes[image]
        /\ hashes' = [n \in DOMAIN hashes \cup {image} |-> IF n = image THEN image_hash ELSE hashes[n]]
        /\ IF IsIntOrFloat(strength)
           THEN LET call == [image |-> image, strength |-> strength,
                             key |-> ChangedKey(image_hash, strength)]
                IN /\ changed' = IF changed = <<>> THEN <<call>> ELSE <<changed[Len(changed)], call>>
                   /\ last' = [op |-> "IS_CHANGED", image |-> image, strength |-> strength,
                               result |-> call.key]
           ELSE /\ changed' = changed
                /\ last' = [op |-> "IS_CHANGED", image |-> image, strength |-> strength,
                            result |-> Raised]
        /\ UNCHANGED <<lorasVars, files, images, controlnets>>

\* MfluxLoadImage.load_and_process(image, strength): Image.open raises on a
\* file that is not there.
load_and_process(image, strength) ==
    /\ Len(images) < MaxImages
    /\ LET image_path == GetAnnotatedFilepath(image)
       IN IF image_path \in DOMAIN files
          THEN /\ images' = Append(images, [image_path |-> PyStr(image_path), strength |-> strength])
               /\ last' = [op |-> "load_and_process", image |-> image, strength |-> strength,
                           result |-> [image |-> Len(images) + 1,
                                       width |-> files[image_path][1],
                                       height |-> files[image_path][2]]]
          ELSE /\ images' = images
               /\ last' = [op |-> "load_and_process", image |-> image, strength |-> strength,
                           result |-> Raised]
    /\ UNCHANGED <<lorasVars, files, controlnets, hashes, changed>>

\* MfluxImagePipeline.clear_cache
ImageClearCache(i) ==
    /\ images' = [images EXCEPT ![i] = [image_path |-> PyNone, strength |-> PyNone]]
    /\ last' = [op |-> "Image.clear_cache", i |-> i]
    /\ UNCHANGED <<lorasVars, files, controlnets, hashes, changed>>

\* ----------------------------------------------------- MfluxControlNetLoader

\* How many MfluxControlNetPipeline objects a run creates.
MaxControlNets == 2

CannyModel == <<"InstantX", Sep, "FLUX.1-dev-Controlnet-Canny">>

\* available_models of VALIDATE_INPUTS
available_models == {CannyModel}

\* The values a model_selection input may hold.
ModelSelections == { PyStr(CannyModel), PyStr(<<"InstantX", Sep, "FLUX.1-dev-Controlnet-Depth">>) }

\* The values a save_canny input may hold.
SaveFlags == { PyBool(TRUE), PyBool(FALSE), PyInt(1) }

\* The shapes np.array(canny_image) may have.
CannyShapes == { <<8, 8>>, <<8, 8, 3>>, <<2, 8, 8, 3>> }

\* The image inputs VALIDATE_INPUTS takes: None (0), or a holder whose path
\* is a string (exists_annotated_filepath is a function of a path string).
ValidatableImages == {0} \cup { i \in DOMAIN images : images[i].image_path.type = "str" }

\* VALIDATE_INPUTS without its check of save_canny.
ControlNetValidateInputsNoFlag(image, model_selection, save_canny) ==
    IF image # 0 /\ ~ExistsAnnotatedFilepath(images[image].image_path.val)
    THEN PyStr(<<"Invalid image file: ">> \o images[image].image_path.val)
    ELSE IF model_selection.val \notin available_models
    THEN PyStr(<<"Invalid model selection: ">> \o model_selection.val)
    ELSE PyTrue

\* VALIDATE_INPUTS without its check of model_selection.
ControlNetValidateInputsNoModel(image, model_selection, save_canny) ==
    IF image # 0 /\ ~ExistsAnnotatedFilepath(images[image].image_path.val)
    THEN PyStr(<<"Invalid image file: ">> \o images[image].image_path.val)
    ELSE IF ~IsBool(save_canny) THEN PyStr(<<"save_canny must be a boolean value">>)
    ELSE PyTrue

\* MfluxControlNetLoader.VALIDATE_INPUTS(image, model_selection, save_canny)
ControlNetValidateInputs(image, model_selection, save_canny) ==
    IF image # 0 /\ ~ExistsAnnotatedFilepath(images[image].image_path.val)
    THEN PyStr(<<"Invalid image file: ">> \o images[image].image_path.val)
    ELSE IF model_selection.val \notin available_models
    THEN PyStr(<<"Invalid model selection: ">> \o model_selection.val)
    ELSE IF ~IsBool(save_canny) THEN PyStr(<<"save_canny must be a boolean value">>)
    ELSE PyTrue

\* The host calls VALIDATE_INPUTS and keeps what it returns.
ControlNetValidate(image, model_selection, save_canny) ==
    /\ last' = [op |-> "ControlNet.VALIDATE_INPUTS", image |-> image,
                image_path |-> IF image = 0 THEN PyNone ELSE images[image].image_path,
                model_selection |-> model_selection, save_canny |-> save_canny,
                result |-> ControlNetValidateInputs(image, model_selection, save_canny)]
    /\ UNCHANGED <<lorasVars, nodesVars>>

\* The batch dimension put before a shape of two dimensions instead.
CannyTensorWrongRank(shape) == IF Len(shape) = 2 THEN <<1>> \o shape ELSE shape

\* The tensor of load_and_select, as its shape: a batch dimension is put
\* before a shape of three dimensions.
CannyTensor(shape) == IF Len(shape) = 3 THEN <<1>> \o shape ELSE shape

\* MfluxControlNetLoader.load_and_select(model_selection, save_canny, image).
\* Image.open raises on None and on a file that is not there; otherwise the
\* preprocessing yields an array of one of the shapes.
load_and_select(model_selection, save_canny, image) ==
    /\ Len(controlnets) < MaxControlNets
    /\ LET image_path == IF image # 0 THEN images[image].image_path ELSE PyNone
           args == [op |-> "load_and_select", image |-> image, image_path |-> image_path,
                    model_selection |-> model_selection, save_canny |-> save_canny]
       IN IF image_path.type = "str" /\ image_path.val \in DOMAIN files
          THEN \E shape \in CannyShapes :
                  /\ controlnets' = Append(controlnets, [model_selection |-> model_selection,
                                                         save_canny |-> save_canny])
                  /\ last' = args @@
                             [canny |-> shape,
                              result |-> [ControlNet |-> Len(controlnets) + 1,
                                          preprocessed_image |-> CannyTensor(shape)]]
          ELSE /\ controlnets' = controlnets
               /\ last' = args @@ [result |-> Raised]
    /\ UNCHANGED <<lorasVars, files, images, hashes, changed>>

\* MfluxControlNetPipeline.clear_cache
ControlNetClearCache(c) ==
    /\ controlnets' = [controlnets EXCEPT ![c] = [model_selection |-> PyNone, save_canny |-> PyBool(FALSE)]]
    /\ last' = [op |-> "ControlNet.clear_cache", c |-> c]
    /\ UNCHANGED <<lorasVars, files, images, hashes, changed>>

\* ---------------------------------------------------------- specification

\* No holder exists before the first node runs, every image the widget
\* offers is in the input directory, and no string has been hashed.
Init ==
    /\ loras = <<>>
    /\ lists = [r \in Refs |-> <<>>]
    /\ files = [p \in { GetAnnotatedFilepath(n) : n \in ImageNames } |-> ImageSize]
    /\ images = <<>>
    /\ controlnets = <<>>
    /\ hashes = <<>>
    /\ changed = <<>>
    /\ last = [op |-> "init"]

\* The LoRA loader and its holders.
NextLoras ==
    \/ \E kw \in Kwargs, up \in 0..Len(loras) : lora_stacker(kw, up)
    \/ \E h \in DOMAIN loras : LorasClearCache(h)

\* The image loader, its holders and the input directory.  The host runs a
\* node's function only on inputs its VALIDATE_INPUTS returned True for.
NextImage ==
    \/ \E image \in ImageNames, strength \in Strengths : ImageValidate(image, strength)
    \/ \E image \in ImageNames, strength \in Strengths :
          /\ ImageValidateInputs(image, strength) = PyTrue
          /\ load_and_process(image, strength)
    \/ \E i \in DOMAIN images : ImageClearCache(i)
    \/ \E p \in DOMAIN files : RemoveFile(p)

\* The host asking the image loader whether its inputs changed.
NextChanged == \E image \in ImageNames, strength \in Strengths : IS_CHANGED(image, strength)

\* The ControlNet loader and its holders, fed by the image loader's.
NextControlNet ==
    \/ \E image \in ValidatableImages, m \in ModelSelections, s \in SaveFlags :
          ControlNetValidate(image, m, s)
    \/ \E image \in ValidatableImages, m \in ModelSelections, s \in SaveFlags :
          /\ ControlNetValidateInputs(image, m, s) = PyTrue
          /\ load_and_select(m, s, image)
    \/ \E c \in DOMAIN controlnets : ControlNetClearCache(c)
    \/ \E image \in ImageNames, strength \in Strengths :
          /\ ImageValidateInputs(image, strength) = PyTrue
          /\ load_and_process(image, strength)
    \/ \E i \in DOMAIN images : ImageClearCache(i)
    \/ \E p \in DOMAIN files : RemoveFile(p)

Next == NextLoras \/ NextImage \/ NextChanged \/ NextControlNet

\* The whole program.
Spec == Init /\ [][Next]_vars

\* The nodes share no state but the image holders the ControlNet loader
\* reads, and IS_CHANGED reads and writes none of the holders, so each part
\* is also checked on its own.
SpecLoras == Init /\ [][NextLoras]_vars

SpecImage == Init /\ [][NextImage]_vars

SpecChanged == Init /\ [][NextChanged]_vars

SpecControlNet == Init /\ [][NextControlNet]_vars

\* ------------------------------------------------------------------ claims

\* The contents of holder h of the LoRA stack holders.
LoraPaths(h) == lists[loras[h].lora_paths]

LoraScales(h) == lists[loras[h].lora_scales]

\* The stack lora_stacker was given as Loras, as it was before the call.
UpstreamBefore ==
    IF last.Loras = 0 THEN [paths |-> <<>>, scales |-> <<>>] ELSE last.before[last.Loras]

\* The slots of the last call whose selection is not "None", in slot order.
UsedSlots == SelectSeq(<<1, 2, 3>>, LAMBDA i : last.kw.Lora[i] # NoneStr)

\* C1: every LoRA stack holder has as many paths as scales, whether it comes
\* from lora_stacker (alone or chained on an upstream) or was cleared.
C1_PathsAndScalesSameLength ==
    \A h \in DOMAIN loras :
        /\ loras[h].lora_paths \in Refs
        /\ loras[h].lora_scales \in Refs
        /\ Len(LoraPaths(h)) = Len(LoraScales(h))

\* C1's case: a holder with entries was cleared while a holder chained on
\* others still holds two entries or more.
C1_Witness ==
    /\ last.op = "Loras.clear_cache"
    /\ last.before[last.h].paths # <<>>
    /\ \E g \in DOMAIN loras : g # last.h /\ Len(LoraPaths(g)) >= 2

\* C2: the stack lora_stacker returns is its local entries followed by the
\* upstream's entries in the upstream's order, paths and scales alike.
C2_LocalThenUpstream ==
    last.op = "lora_stacker" =>
        LET k == Len(UsedSlots)
            r == last.result
        IN /\ Len(LoraPaths(r)) = k + Len(UpstreamBefore.paths)
           /\ Len(LoraScales(r)) = k + Len(UpstreamBefore.scales)
           /\ SubSeq(LoraPaths(r), k + 1, Len(LoraPaths(r))) = UpstreamBefore.paths
           /\ SubSeq(LoraScales(r), k + 1, Len(LoraScales(r))) = UpstreamBefore.scales

\* C2's case: local entries were put before an upstream with entries whose
\* first entry is another one.
C2_Witness ==
    /\ last.op = "lora_stacker"
    /\ Len(UsedSlots) >= 1
    /\ Len(UpstreamBefore.paths) >= 2
    /\ LoraPaths(last.result)[1] # UpstreamBefore.paths[1]

\* C3: the local entries are the slots whose selection is not "None", in slot
\* order, each <models_dir>/loras/<selection> with the scale of its slot.
C3_LocalEntries ==
    last.op = "lora_stacker" =>
        /\ Len(LoraPaths(last.result)) >= Len(UsedSlots)
        /\ Len(LoraScales(last.result)) >= Len(UsedSlots)
        /\ \A j \in 1..Len(UsedSlots) :
              /\ LoraPaths(last.result)[j] =
                    models_dir \o <<Sep, "loras", Sep>> \o last.kw.Lora[UsedSlots[j]]
              /\ LoraScales(last.result)[j] = last.kw.scale[UsedSlots[j]]
        /\ Len(LoraPaths(last.result)) = Len(UsedSlots) + Len(UpstreamBefore.paths)

\* C3's case: slots 1 and 3 hold two different files and slot 2 is "None",
\* with a scale that is not the scale of slot 3.
C3_Witness ==
    /\ last.op = "lora_stacker"
    /\ last.kw.Lora[1] # NoneStr
    /\ last.kw.Lora[2] = NoneStr
    /\ last.kw.Lora[3] # NoneStr
    /\ last.kw.Lora[1] # last.kw.Lora[3]
    /\ last.kw.scale[2] # last.kw.scale[3]
    /\ Len(LoraPaths(last.result)) >= 2

\* C4: with three "None" selections and no upstream entry (no upstream, or
\* an upstream with none), lora_stacker returns a holder of two empty lists.
C4_EmptyStack ==
    ( /\ last.op = "lora_stacker"
      /\ \A i \in Slots : last.kw.Lora[i] = NoneStr
      /\ UpstreamBefore.paths = <<>>
      /\ UpstreamBefore.scales = <<>> ) =>
        /\ last.result \in DOMAIN loras
        /\ loras[last.result].lora_paths \in Refs
        /\ loras[last.result].lora_scales \in Refs
        /\ LoraPaths(last.result) = <<>>
        /\ LoraScales(last.result) = <<>>

\* C4's case: three "None" selections on an upstream that holds no entry.
C4_Witness ==
    /\ last.op = "lora_stacker"
    /\ \A i \in Slots : last.kw.Lora[i] = NoneStr
    /\ last.Loras # 0
    /\ UpstreamBefore.paths = <<>>
    /\ LoraPaths(last.result) = <<>>

\* C10: lora_stacker leaves every holder that existed as it was, clear_cache
\* changes no holder but its own, and no list is held by two fields.
C10_HoldersShareNothing ==
    /\ last.op = "lora_stacker" =>
           \A h \in DOMAIN last.before :
               LoraPaths(h) = last.before[h].paths /\ LoraScales(h) = last.before[h].scales
    /\ last.op = "Loras.clear_cache" =>
           \A g \in DOMAIN last.before \ {last.h} :
               LoraPaths(g) = last.before[g].paths /\ LoraScales(g) = last.before[g].scales
    /\ \A h \in DOMAIN loras : loras[h].lora_paths # loras[h].lora_scales
    /\ \A h, g \in DOMAIN loras :
           h # g => {loras[h].lora_paths, loras[h].lora_scales}
                        \cap {loras[g].lora_paths, loras[g].lora_scales} = {}

\* C10's case: an upstream with entries was cleared after a holder had been
\* stacked on it, and that holder still ends with the upstream's entries.
C10_Witness ==
    /\ last.op = "Loras.clear_cache"
    /\ last.before[last.h].paths # <<>>
    /\ LoraPaths(last.h) = <<>>
    /\ \E g \in DOMAIN loras :
          /\ g > last.h
          /\ Len(LoraPaths(g)) > Len(last.before[last.h].paths)
          /\ SubSeq(LoraPaths(g), Len(LoraPaths(g)) - Len(last.before[last.h].paths) + 1,
                    Len(LoraPaths(g))) = last.before[last.h].paths

\* The strength of a call, rounded to two decimals, in hundredths.
RoundedStrength(v) ==
    LET x == IF v.type = "float" THEN v.val
             ELSE IF v.type = "int" THEN 1000 * v.val
             ELSE IF v.val THEN 1000 ELSE 0
    IN CHOOSE r \in 0..200 : 10 * r - 5 < x /\ x < 10 * r + 5

\* C5: the ControlNet VALIDATE_INPUTS returns True exactly when the model is
\* a supported one, the save flag is a bool and the image, if one is given,
\* is at a path that exists; otherwise it returns a message.
C5_ControlNetValidation ==
    last.op = "ControlNet.VALIDATE_INPUTS" =>
        LET allHold == /\ last.model_selection.val = <<"InstantX", "/", "FLUX.1-dev-Controlnet-Canny">>
                       /\ last.save_canny \in {PyBool(TRUE), PyBool(FALSE)}
                       /\ last.image # 0 => last.image_path.val \in DOMAIN files
        IN /\ last.result = PyTrue <=> allHold
           /\ ~allHold => last.result.type = "str"

\* C5's case: an image whose file exists, a supported model and a bool flag
\* are accepted.
C5_Witness ==
    /\ last.op = "ControlNet.VALIDATE_INPUTS"
    /\ last.image # 0
    /\ last.image_path.val \in DOMAIN files
    /\ last.result = PyTrue

\* C6 as stated: the model_selection of every ControlNet holder is a
\* supported model, also after clear_cache.
C6_ModelAlwaysSupported ==
    \A c \in DOMAIN controlnets :
        controlnets[c].model_selection = PyStr(<<"InstantX", "/", "FLUX.1-dev-Controlnet-Canny">>)

\* C6, amended: a holder's model_selection is a supported model from the
\* moment load_and_select returns it until clear_cache is called on it, and
\* clear_cache leaves None in it and False in save_canny.
C6_SupportedUntilCleared ==
    /\ [](\A c \in DOMAIN controlnets :
            \/ controlnets[c].model_selection = PyStr(<<"InstantX", "/", "FLUX.1-dev-Controlnet-Canny">>)
            \/ controlnets[c] = [model_selection |-> PyNone, save_canny |-> PyBool(FALSE)])
    /\ [][\A c \in DOMAIN controlnets' :
            /\ c \notin DOMAIN controlnets =>
                  controlnets'[c].model_selection = PyStr(<<"InstantX", "/", "FLUX.1-dev-Controlnet-Canny">>)
            /\ (c \in DOMAIN controlnets /\ controlnets'[c] # controlnets[c]) =>
                  /\ last'.op = "ControlNet.clear_cache"
                  /\ last'.c = c
                  /\ controlnets'[c].model_selection = PyNone]_vars

\* C6's case: clear_cache was called on a holder load_and_select returned,
\* while another holder still holds its model.
C6_Witness ==
    /\ last.op = "ControlNet.clear_cache"
    /\ controlnets[last.c].model_selection = PyNone
    /\ \E d \in DOMAIN controlnets : controlnets[d].model_selection.type = "str"

\* C7 as stated: two keys of IS_CHANGED are equal exactly when the two calls
\* had the same identifier and the same strength rounded to two decimals.
C7_KeyTellsEveryChange ==
    \A i, j \in DOMAIN changed :
        changed[i].key = changed[j].key <=>
            /\ changed[i].image = changed[j].image
            /\ RoundedStrength(changed[i].strength) = RoundedStrength(changed[j].strength)

\* C7, amended: the key is the same for the same identifier and rounded
\* strength, differs when the rounded strength differs, and differs when the
\* identifiers differ unless hash() gives both identifiers the same value.
C7_KeyStableAndTellsHashedChange ==
    \A i, j \in DOMAIN changed :
        LET sameId == changed[i].image = changed[j].image
            sameHash == hashes[changed[i].image] = hashes[changed[j].image]
            sameRounded == RoundedStrength(changed[i].strength) = RoundedStrength(changed[j].strength)
        IN /\ (sameId /\ sameRounded) => changed[i].key = changed[j].key
           /\ ~sameRounded => changed[i].key # changed[j].key
           /\ (~sameId /\ ~sameHash) => changed[i].key # changed[j].key
           /\ (~sameId /\ sameHash /\ sameRounded) => changed[i].key = changed[j].key

\* C7's case: the same identifier with two strengths that differ only past
\* the second decimal gave the same key.
C7_Witness ==
    /\ Len(changed) = 2
    /\ changed[1].image = changed[2].image
    /\ changed[1].strength # changed[2].strength
    /\ RoundedStrength(changed[1].strength) = RoundedStrength(changed[2].strength)
    /\ changed[1].key = changed[2].key

\* C8: the tensor of load_and_select has four dimensions when the array of
\* the preprocessing has three (a batch dimension of 1 in front), and the
\* array's own dimensions otherwise.
C8_TensorRank ==
    (last.op = "load_and_select" /\ "canny" \in DOMAIN last) =>
        LET tensor == last.result.preprocessed_image
        IN /\ Len(last.canny) = 3 => (Len(tensor) = 4 /\ tensor = <<1>> \o last.canny)
           /\ Len(last.canny) # 3 => (Len(tensor) = Len(last.canny) /\ tensor = last.canny)

\* C8's case: the preprocessing gave an array of three dimensions.
C8_Witness ==
    /\ last.op = "load_and_select"
    /\ "canny" \in DOMAIN last
    /\ Len(last.canny) = 3
    /\ Len(last.result.preprocessed_image) = 4

\* C9: the image loader's VALIDATE_INPUTS returns True exactly when the file
\* exists and the strength is a number, and a message otherwise.
C9_ImageValidation ==
    last.op = "Image.VALIDATE_INPUTS" =>
        LET fileExists == (<<"/", "input", "/">> \o last.image) \in DOMAIN files
            numeric == last.strength.type \in {"int", "float", "bool"}
        IN /\ last.result = PyTrue <=> (fileExists /\ numeric)
           /\ ~(fileExists /\ numeric) => last.result.type = "str"

\* C9's case: a strength that is no number is refused for a file that
\* exists, after another file was deleted.
C9_Witness ==
    /\ last.op = "Image.VALIDATE_INPUTS"
    /\ (<<"/", "input", "/">> \o last.image) \in DOMAIN files
    /\ last.strength.type \in {"str", "NoneType"}
    /\ last.result.type = "str"
    /\ Cardinality(DOMAIN files) < Cardinality(ImageNames)

====
